---- MODULE Spec2Model ----
(***************************************************************************)
(* The refinement controller of the Gemini multi-agent QA assistant        *)
(* (src/agents.py, class GeminiAssistant): generate_response and the        *)
(* three agents it drives (quality_agent, grader_agent, refiner_agent).     *)
(*                                                                         *)
(* Texts are sequences of one-character strings, so that the string        *)
(* operations of the code (strip, split, lower, startswith, "in", +) are    *)
(* computed, not assumed.  Every call of client.models.generate_content is  *)
(* a suspend point: an action of the model is the code that runs from one   *)
(* return of the model service to the next call of it.                      *)
(*                                                                         *)
(* Specifications:                                                         *)
(*   Spec      generate_response of src/agents.py, sink None or returning  *)
(*   SpecFair  Spec, where every model call returns or raises in the end   *)
(*   SpecConcurrent  generate_response calls that overlap on one assistant *)
(*   SpecFiles upload_file and cleanup_uploaded_files, same sinks          *)
(*   SpecSink  the assistant's methods with a progress sink that raises    *)
(*   SpecApp   generate_response of src/app.py                             *)
(*   SpecText  count_words and contains_numbers on small texts             *)
(***************************************************************************)
EXTENDS Naturals, Sequences, FiniteSets

(***************************************************************************)
(* Bounds of the model.                                                    *)
(***************************************************************************)
\* Largest max_refinements a request is given (the caller may pass any int).
MaxRefinements == 3
\* Number of request slots of the one assistant object.
MaxRequests == 2

\* Smallest max_refinements the caller's slider offers.
MinRefinements == 1

\* The number of files the service can hold.
MaxFiles == 3

\* Longest text of the alphabet given to count_words.
MaxLen == 3

(***************************************************************************)
(* Python string operations, on sequences of characters.                   *)
(***************************************************************************)
UpperCase ==
    <<"A","B","C","D","E","F","G","H","I","J","K","L","M","N","O","P","Q",
      "R","S","T","U","V","W","X","Y","Z">>

LowerCase ==
    <<"a","b","c","d","e","f","g","h","i","j","k","l","m","n","o","p","q",
      "r","s","t","u","v","w","x","y","z">>

\* str.isspace() of one character, over the characters the model uses.
IsSpace(c) == c \in {" ", "\n", "\t", "\r"}

\* str.lower() of one character.
LowerChar(c) ==
    IF \E k \in 1..26 : UpperCase[k] = c
    THEN LowerCase[CHOOSE k \in 1..26 : UpperCase[k] = c]
    ELSE c

\* str.upper() of one character.
UpperChar(c) ==
    IF \E k \in 1..26 : LowerCase[k] = c
    THEN UpperCase[CHOOSE k \in 1..26 : LowerCase[k] = c]
    ELSE c

\* s.lower()
RECURSIVE Lower(_)
Lower(s) ==
    IF s = <<>> THEN <<>> ELSE <<LowerChar(Head(s))>> \o Lower(Tail(s))

\* s.upper()
RECURSIVE Upper(_)
Upper(s) ==
    IF s = <<>> THEN <<>> ELSE <<UpperChar(Head(s))>> \o Upper(Tail(s))

\* s.lstrip()
LStrip(s) ==
    LET k == CHOOSE k \in 1..(Len(s) + 1) :
                 /\ \A j \in 1..(k - 1) : IsSpace(s[j])
                 /\ (k = Len(s) + 1 \/ ~IsSpace(s[k]))
    IN  SubSeq(s, k, Len(s))

\* s.rstrip()
RStrip(s) ==
    LET k == CHOOSE k \in 0..Len(s) :
                 /\ \A j \in (k + 1)..Len(s) : IsSpace(s[j])
                 /\ (k = 0 \/ ~IsSpace(s[k]))
    IN  SubSeq(s, 1, k)

\* s.strip()
Strip(s) == RStrip(LStrip(s))

\* s.startswith(p)
StartsWith(s, p) == Len(p) <= Len(s) /\ SubSeq(s, 1, Len(p)) = p

\* sub in s
Contains(s, sub) ==
    /\ Len(sub) <= Len(s)
    /\ \E k \in 0..(Len(s) - Len(sub)) : SubSeq(s, k + 1, k + Len(sub)) = sub

\* The index of the first c in s, or 0.
IndexOf(s, c) ==
    IF \E k \in 1..Len(s) : s[k] = c
    THEN CHOOSE k \in 1..Len(s) : s[k] = c /\ \A j \in 1..(k - 1) : s[j] # c
    ELSE 0

\* s.split(c): the pieces of s between the occurrences of the character c.
RECURSIVE Split(_, _)
Split(s, c) ==
    IF IndexOf(s, c) = 0
    THEN <<s>>
    ELSE <<SubSeq(s, 1, IndexOf(s, c) - 1)>>
             \o Split(SubSeq(s, IndexOf(s, c) + 1, Len(s)), c)

\* s.split(c, 1)[1], for an s that holds c: what follows the first c.
AfterFirst(s, c) == SubSeq(s, IndexOf(s, c) + 1, Len(s))

\* bool(s) of a str
Truthy(s) == s # <<>>

(***************************************************************************)
(* String literals of src/agents.py.                                       *)
(***************************************************************************)
\* "\n\n=== CONVERSATION HISTORY ===\n"
HistoryHeader ==
    <<"\n","\n","=","=","="," ","C","O","N","V","E","R","S","A","T","I","O",
      "N"," ","H","I","S","T","O","R","Y"," ","=","=","=","\n">>

\* "GRADE:"
GradeLabel ==
    <<"G","R","A","D","E",":">>

\* "FAILED_CRITERIA:"
FailedCriteriaLabel ==
    <<"F","A","I","L","E","D","_","C","R","I","T","E","R","I","A",":">>

\* The grade_result the grader starts from, and the three words the
\* controller looks for.
NoWord == <<"n","o">>

PassWord == <<"p","a","s","s">>

ErrorWord == <<"e","r","r","o","r">>

NoneWord == <<"n","o","n","e">>

\* The text put between the response and the failed criteria.  The warning
\* sign is two code points, U+26A0 and the variation selector U+FE0F: the
\* second is written "VS16" here.
QualityNotice ==
    <<"\n","\n","-","-","-","\n","*","*","⚠","VS16"," ","Q","u","a","l","i",
      "t","y"," ","C","h","e","c","k"," ","N","o","t","i","c","e",":","*",
      "*"," ","M","a","x","i","m","u","m"," ","r","e","f","i","n","e","m",
      "e","n","t"," ","i","t","e","r","a","t","i","o","n","s"," ","r","e",
      "a","c","h","e","d","."," ","T","h","e"," ","r","e","s","p","o","n",
      "s","e"," ","m","a","y"," ","n","o","t"," ","f","u","l","l","y"," ",
      "m","e","e","t"," ","t","h","e"," ","f","o","l","l","o","w","i","n",
      "g"," ","c","r","i","t","e","r","i","a",":","\n","\n">>

\* "Error: "
ErrorPrefix ==
    <<"E","r","r","o","r",":"," ">>

\* "\n\n[ERROR: " and "]"
ErrorOpen ==
    <<"\n","\n","[","E","R","R","O","R",":"," ">>

ErrorClose == <<"]">>

(***************************************************************************)
(* What the caller and the model service can supply.                       *)
(***************************************************************************)
\* prompt
Prompts == {<<"Q">>}

\* conversation_history: None/empty, or turns {role, content}
Histories ==
    {<<>>, <<[role |-> <<"u","s","e","r">>, content |-> <<"A">>]>>}

\* uploaded_file_objects: handles of files uploaded before the request
FileObjects == {<<>>, <<"files/f1">>}

\* str(e) of an exception raised by client.models.generate_content
ErrorMessages == {<<"t","i","m","e","o","u","t">>}

\* response.text of the initial generation
GenerationTexts == {<<>>, <<"a">>, <<"v","2">>}

\* response.text of the criteria call
CriteriaTexts == {<<>>, <<"c">>}

\* response.text of a refiner call
RefinerTexts == {<<>>, <<"b">>, <<"v","3">>}

\* response.text of a grading call
ReplyPass ==
    <<"G","R","A","D","E",":"," ","p","a","s","s","\n","F","A","I","L","E",
      "D","_","C","R","I","T","E","R","I","A",":"," ","N","o","n","e">>

ReplyFail ==
    <<"G","R","A","D","E",":"," ","n","o","\n","F","A","I","L","E","D","_",
      "C","R","I","T","E","R","I","A",":"," ","g","o","t"," ","3","2","0">>

ReplyFailNone ==
    <<"G","R","A","D","E",":"," ","n","o","\n","F","A","I","L","E","D","_",
      "C","R","I","T","E","R","I","A",":"," ","N","o","n","e">>

ReplyPassSpaced ==
    <<" ","G","R","A","D","E",":"," ","P","a","s","s","\n">>

ReplyNoGradeLine ==
    <<"o","k">>

ReplyGradeError ==
    <<"G","R","A","D","E",":"," ","e","r","r","o","r">>

GraderReplies ==
    {ReplyPass, ReplyFail, ReplyFailNone, ReplyPassSpaced, ReplyNoGradeLine,
     ReplyGradeError}

\* The outcome of one client.models.generate_content call: response.text, or
\* an exception with its message.
Returned(t) == [raised |-> FALSE, text |-> t]

Raised(m) == [raised |-> TRUE, text |-> m]

\* Python's None and a str, as the value of one variable.
None == [isNone |-> TRUE, text |-> <<>>]

Str(t) == [isNone |-> FALSE, text |-> t]

(***************************************************************************)
(* The pure parts of GeminiAssistant.                                      *)
(***************************************************************************)
\* _build_history_context(conversation_history)
RECURSIVE HistoryLines(_)
HistoryLines(conversation_history) ==
    IF conversation_history = <<>>
    THEN <<>>
    ELSE LET msg == Head(conversation_history)
         IN  <<"\n">> \o Upper(msg.role) \o <<":", " ">> \o msg.content
                 \o <<"\n">> \o HistoryLines(Tail(conversation_history))

build_history_context(conversation_history) ==
    IF conversation_history = <<>>
    THEN <<>>
    ELSE HistoryHeader \o HistoryLines(conversation_history)

\* The four configurations setup_api builds, each the set of its tools.
config_with_search_and_code == {"google_search", "code_execution"}

config_with_search == {"google_search"}

config_with_code == {"code_execution"}

config_no_tools == {}

\* A selection that looks at use_search alone when it is set.
get_config_SearchFirst(use_search, use_code_execution) ==
    IF use_search THEN config_with_search
    ELSE IF use_code_execution THEN config_with_code
    ELSE config_no_tools

\* _get_config(use_search, use_code_execution)
get_config(use_search, use_code_execution) ==
    IF use_search /\ use_code_execution THEN config_with_search_and_code
    ELSE IF use_search THEN config_with_search
    ELSE IF use_code_execution THEN config_with_code
    ELSE config_no_tools

\* contains_numbers(text) of text_utils, which agents.py imports: whether a
\* decimal digit occurs in the text.
Digits == {"0","1","2","3","4","5","6","7","8","9"}

contains_numbers(text) == \E k \in 1..Len(text) : text[k] \in Digits

\* A grader that never asks for the search tool.
grader_config_NoSearch(response_text, use_search) ==
    get_config(FALSE, contains_numbers(response_text))

\* A grader that asks for code execution at every call.
grader_config_Always(response_text, use_search) == get_config(use_search, TRUE)

\* The configuration grader_agent gives its call: code execution when the
\* response holds a number, search as the caller set it.
grader_config(response_text, use_search) ==
    get_config(use_search, contains_numbers(response_text))

\* quality_agent: response.text, or None when the call raised.
quality_agent(outcome) ==
    IF outcome.raised THEN None ELSE Str(outcome.text)

\* The parsing loop of grader_agent over the lines of the reply: the last
\* GRADE: line and the last FAILED_CRITERIA: line win.
RECURSIVE ParseLines(_, _, _)
ParseLines(lines, grade_result, failed_criteria) ==
    IF lines = <<>>
    THEN [grade |-> grade_result, failed_criteria |-> failed_criteria]
    ELSE LET line == Head(lines)
         IN  IF StartsWith(line, GradeLabel)
             THEN ParseLines(Tail(lines), Lower(Strip(AfterFirst(line, ":"))),
                             failed_criteria)
             ELSE IF StartsWith(line, FailedCriteriaLabel)
             THEN ParseLines(Tail(lines), grade_result,
                             Strip(AfterFirst(line, ":")))
             ELSE ParseLines(Tail(lines), grade_result, failed_criteria)

\* grader_agent: (grade_result, failed_criteria) parsed from the reply, or
\* ("error", str(e)) when the call raised.
grader_agent(outcome) ==
    IF outcome.raised
    THEN [grade |-> ErrorWord, failed_criteria |-> outcome.text]
    ELSE ParseLines(Split(Strip(outcome.text), "\n"), NoWord, <<>>)

\* refiner_agent: response.text, or None when the call raised.
refiner_agent(outcome) ==
    IF outcome.raised THEN None ELSE Str(outcome.text)

(***************************************************************************)
(* The decisions of generate_response.                                     *)
(***************************************************************************)
\* An entry that leaves self.current_response as the last call left it.
ResetResponse_Keep(cr) == cr

\* self.current_response = "" on entry; cr is the value it had.
ResetResponse(cr) == <<>>

\* A controller without the early return for disabled agents.
AgentsDisabled_Ignored(use_agents) == FALSE

\* if not use_agents
AgentsDisabled(use_agents) == ~use_agents

\* A controller that grades although quality_agent gave no criteria.
CriteriaMissing_Ignored(criteria) == FALSE

\* if criteria is None
CriteriaMissing(criteria) == criteria.isNone

\* A loop that runs once more than range(max_refinements) does.
InRange_Inclusive(i, max_refinements) == i <= max_refinements

\* for i in range(max_refinements): whether the loop body runs with index i.
InRange(i, max_refinements) == i < max_refinements

\* A test for the word in upper case, of a grade that was lower-cased.
IsPass_UpperCase(grade) == Contains(grade, Upper(PassWord))

\* if "pass" in grade
IsPass(grade) == Contains(grade, PassWord)

\* A controller without the branch for a grader error.
IsError_Missing(grade) == FALSE

\* elif "error" in grade
IsError(grade) == Contains(grade, ErrorWord)

\* A controller that goes on after the refiner gave no response.
RefinementMissing_Ignored(new_response) == FALSE

\* if new_response is None
RefinementMissing(new_response) == new_response.isNone

\* if last_failed_criteria and last_failed_criteria.lower() != "none"
HasFeedback(last_failed_criteria) ==
    Truthy(last_failed_criteria) /\ Lower(last_failed_criteria) # NoneWord

\* A notice that leaves out the failed criteria.
WithNotice_NoCriteria(cr, last_failed_criteria) ==
    IF HasFeedback(last_failed_criteria) THEN cr \o QualityNotice ELSE cr

\* The else clause of the for loop: self.current_response after it.
WithNotice(cr, last_failed_criteria) ==
    IF HasFeedback(last_failed_criteria)
    THEN cr \o QualityNotice \o last_failed_criteria
    ELSE cr

\* An except clause that returns the response without the error.
HandleException_Silent(cr, message) == cr

\* The except clause of generate_response: the text it returns.
HandleException(cr, message) ==
    IF Truthy(cr)
    THEN cr \o ErrorOpen \o message \o ErrorClose
    ELSE ErrorPrefix \o message

(***************************************************************************)
(* State.                                                                  *)
(***************************************************************************)
VARIABLES
    current_response,   \* self.current_response of the assistant
    frame,              \* the generate_response call of each request slot
    progress_callback,  \* self.progress_callback: "None", or how the sink
                        \* the caller installed behaves: "returns", "raises"
    uploaded_files,     \* self.uploaded_files: the names tracked for cleanup
    remote_files,       \* the names of the files the model service holds
    registry_op,        \* the latest upload_file or cleanup_uploaded_files
                        \* call and what it did
    input_text,         \* a text given to the text utilities
    metrics,            \* what count_words returned for it
    has_numbers         \* what contains_numbers returned for it

vars ==
    <<current_response, frame, progress_callback, uploaded_files,
      remote_files, registry_op, input_text, metrics, has_numbers>>

\* What generate_response with a sink that returns leaves as it is.
outside_generate ==
    <<progress_callback, uploaded_files, remote_files, registry_op,
      input_text, metrics, has_numbers>>

\* What upload_file and cleanup_uploaded_files leave as they are.
outside_registry == <<current_response, frame, progress_callback, input_text, metrics, has_numbers>>

\* What the text utilities leave as it is.
outside_text ==
    <<current_response, frame, progress_callback, uploaded_files,
      remote_files, registry_op>>

Requests == 1..MaxRequests

\* No upload_file or cleanup_uploaded_files call yet.  op is the method
\* ("upload_file", "cleanup_uploaded_files"), before is self.uploaded_files
\* as the call found it, attempts are the client.files.delete calls it made,
\* each with the name and whether the deletion succeeded, returned is the
\* value the call returned ("None" or "file") or "raised", and previous is
\* the op and the before of the call before it.
NoRegistryOp ==
    [op |-> "", before |-> <<>>, attempts |-> <<>>, returned |-> "None",
     previous |-> [op |-> "", before |-> <<>>]]

\* No contains_numbers call yet.
NoAnswer == [called |-> FALSE, value |-> FALSE]

\* No count_words call yet.
NoMetrics == [called |-> FALSE, words |-> 0, sentences |-> 0, chars |-> 0]

\* What a method of src/agents.py gives to client.models.generate_content
\* as contents: the role of the call, the values that fill the places of
\* its prompt template (the fixed wording of the template is left out), and
\* the file objects that go with the text as further parts.
Contents(role, prompt, history_context, criteria, response_text, parts) ==
    [role |-> role, prompt |-> prompt, history_context |-> history_context,
     criteria |-> criteria, response_text |-> response_text, parts |-> parts]

\* No model call yet.
NoContents == Contents("", <<>>, <<>>, <<>>, <<>>, <<>>)

\* contents = [full_prompt]; contents.extend(uploaded_file_objects)
generate_contents(full_prompt, uploaded_file_objects) ==
    Contents("generate", full_prompt, <<>>, <<>>, <<>>, uploaded_file_objects)

\* criteria_prompt of quality_agent: the history context and the prompt, as
\* one text with no further part.
quality_contents(prompt, conversation_history) ==
    Contents("quality", prompt, build_history_context(conversation_history),
             <<>>, <<>>, <<>>)

\* A grader prompt that leaves out the response to grade.
grader_contents_NoResponse(response_text, criteria) ==
    Contents("grader", <<>>, <<>>, criteria, <<>>, <<>>)

\* grader_prompt of grader_agent: the criteria and the response, as one text.
grader_contents(response_text, criteria) ==
    Contents("grader", <<>>, <<>>, criteria, response_text, <<>>)

\* refiner_prompt of refiner_agent: the history context, the prompt, the
\* criteria and the response, as one text with no further part.
refiner_contents(prompt, criteria, response_text, conversation_history) ==
    Contents("refiner", prompt, build_history_context(conversation_history),
             criteria, response_text, <<>>)

\* A slot with no call in it.  pc is the place of the call: "idle", or the
\* model call it waits for ("generating", "criteria", "grading", "refining"),
\* or "done" once it has returned.  The fields up to ret are the parameters
\* and locals of generate_response (grader_config is the config local of the
\* grader_agent call it waits for); the others record what the call did:
\*   calls    the model calls made by each role,
\*   exit     the return statement or break that ended it,
\*   stale    self.current_response as the call found it, kept while the
\*            initial generation has not returned a text,
\*   graded   the response_text given to grader_agent in this turn of the
\*            loop,
\*   raised   the role ("generate", "quality", "grader", "refiner") of the
\*            latest model call when it raised, "" when it returned.
IdleFrame ==
    [pc |-> "idle",
     prompt |-> <<>>, uploaded_file_objects |-> <<>>, file_contexts |-> <<>>,
     use_search |-> FALSE, use_code_execution |-> FALSE,
     use_agents |-> FALSE, max_refinements |-> 0,
     conversation_history |-> <<>>,
     full_prompt |-> <<>>, contents |-> <<>>, config |-> {},
     grader_config |-> {},
     current |-> <<>>, criteria |-> <<>>, last_failed_criteria |-> <<>>,
     i |-> 0, grade |-> <<>>, failed_criteria |-> <<>>, ret |-> <<>>,
     calls |-> [generate |-> 0, quality |-> 0, grader |-> 0, refiner |-> 0],
     exit |-> "", stale |-> <<>>, graded |-> <<>>, raised |-> "",
     sent |-> NoContents]

\* After GeminiAssistant.__init__.  progress_callback is None then, and
\* log_progress does nothing; a sink that returns changes no state either,
\* so the progress messages are not part of the state.
Init ==
    /\ current_response = <<>>
    /\ frame = [r \in Requests |-> IdleFrame]
    /\ progress_callback = "None"
    /\ uploaded_files = <<>>
    /\ remote_files = {}
    /\ registry_op = NoRegistryOp
    /\ input_text = <<>>
    /\ metrics = NoMetrics
    /\ has_numbers = NoAnswer

\* return self.current_response (or the except clause's text): the call ends.
Finish(f, text, why) == [f EXCEPT !.pc = "done", !.ret = text, !.exit = why]

(***************************************************************************)
(* generate_response, from one model call to the next.                     *)
(***************************************************************************)
\* Entry up to the initial generate_content call; args are the arguments.
Begin(f, cr, args) ==
    LET full_prompt ==
            build_history_context(args.conversation_history) \o args.prompt
    IN  [f EXCEPT !.pc = "generating",
                  !.prompt = args.prompt,
                  !.uploaded_file_objects = args.uploaded_file_objects,
                  !.use_search = args.use_search,
                  !.use_code_execution = args.use_code_execution,
                  !.use_agents = args.use_agents,
                  !.max_refinements = args.max_refinements,
                  !.conversation_history = args.conversation_history,
                  !.full_prompt = full_prompt,
                  !.contents = <<full_prompt>> \o args.uploaded_file_objects,
                  !.config = get_config(args.use_search,
                                        args.use_code_execution),
                  !.sent = generate_contents(full_prompt,
                                             args.uploaded_file_objects),
                  !.stale = cr]

\* The for statement reaching index i: the next grading call, or the else
\* clause and the return after it.  The result is the pair of the frame and
\* self.current_response.
LoopAt(f, cr, i) ==
    IF InRange(i, f.max_refinements)
    THEN [frame |-> [f EXCEPT !.pc = "grading", !.i = i, !.graded = <<>>,
                              !.sent = grader_contents(f.current, f.criteria),
                              !.grader_config =
                                  grader_config(f.current, f.use_search)],
          response |-> cr]
    ELSE LET noticed == WithNotice(cr, f.last_failed_criteria)
         IN  [frame |-> Finish([f EXCEPT !.i = i], noticed, "bound"),
              response |-> noticed]

\* The initial generation returned: up to the return (agents disabled) or
\* the criteria call.
AfterGeneration(f, text) ==
    LET f1 == [f EXCEPT !.current = text, !.stale = <<>>,
                        !.calls.generate = @ + 1]
    IN  IF AgentsDisabled(f.use_agents)
        THEN Finish(f1, text, "disabled")
        ELSE [f1 EXCEPT !.pc = "criteria",
                        !.sent = quality_contents(f.full_prompt,
                                                  f.conversation_history)]

\* quality_agent returned: up to the return (no criteria) or the first
\* grading call.
AfterCriteria(f, cr, criteria) ==
    LET f1 == [f EXCEPT !.calls.quality = @ + 1]
    IN  IF CriteriaMissing(criteria)
        THEN [frame |-> Finish(f1, cr, "no_criteria"), response |-> cr]
        ELSE LoopAt([f1 EXCEPT !.criteria = criteria.text,
                               !.last_failed_criteria = <<>>], cr, 0)

\* grader_agent returned (grade, failed_criteria): the break and return, or
\* up to the refiner call.
AfterGrade(f, cr, verdict) ==
    LET f1 == [f EXCEPT !.grade = verdict.grade,
                        !.failed_criteria = verdict.failed_criteria,
                        !.graded = f.current,
                        !.calls.grader = @ + 1]
    IN  IF IsPass(verdict.grade) THEN Finish(f1, cr, "pass")
        ELSE IF IsError(verdict.grade) THEN Finish(f1, cr, "grader_error")
        ELSE [f1 EXCEPT !.pc = "refining",
                        !.sent = refiner_contents(f.full_prompt, f.criteria,
                                                  f.current,
                                                  f.conversation_history),
                        !.last_failed_criteria = verdict.failed_criteria]

\* refiner_agent returned new_response: the break and return, or the new
\* candidate and the next turn of the loop.
AfterRefine(f, cr, new_response) ==
    LET f1 == [f EXCEPT !.calls.refiner = @ + 1]
    IN  IF RefinementMissing(new_response)
        THEN [frame |-> Finish(f1, cr, "refiner_failed"), response |-> cr]
        ELSE LoopAt([f1 EXCEPT !.current = new_response.text],
                    new_response.text, f.i + 1)

(***************************************************************************)
(* Actions.                                                                *)
(***************************************************************************)
\* No other call of the assistant is between its entry and its return.
Sequential(r) ==
    \A q \in Requests \ {r} : frame[q].pc = "idle"

\* A caller calls generate_response.
Call(r) ==
    /\ frame[r].pc = "idle"
    /\ Sequential(r)
    /\ progress_callback # "raises"
    /\ \E prompt \in Prompts, files \in FileObjects,
          use_search \in BOOLEAN, use_code_execution \in BOOLEAN,
          use_agents \in BOOLEAN,
          max_refinements \in MinRefinements..MaxRefinements,
          conversation_history \in Histories :
          frame' = [frame EXCEPT ![r] =
                        Begin(@, current_response,
                              [prompt |-> prompt,
                               uploaded_file_objects |-> files,
                               use_search |-> use_search,
                               use_code_execution |-> use_code_execution,
                               use_agents |-> use_agents,
                               max_refinements |-> max_refinements,
                               conversation_history |-> conversation_history])]
    /\ current_response' = ResetResponse(current_response)
    /\ UNCHANGED outside_generate

\* The initial generation returns a text.
GenerationReturns(r) ==
    /\ frame[r].pc = "generating"
    /\ \E text \in GenerationTexts :
          /\ frame' = [frame EXCEPT ![r] =
                           AfterGeneration([@ EXCEPT !.raised = ""], text)]
          /\ current_response' = text
    /\ UNCHANGED outside_generate

\* The initial generation raises: the except clause returns.
GenerationRaises(r) ==
    /\ frame[r].pc = "generating"
    /\ \E message \in ErrorMessages :
          frame' = [frame EXCEPT ![r] =
                        Finish([@ EXCEPT !.calls.generate = @ + 1,
                                         !.raised = "generate"],
                               HandleException(current_response, message),
                               "generation_error")]
    /\ UNCHANGED current_response
    /\ UNCHANGED outside_generate

\* The criteria call returns a text.
CriteriaReturns(r) ==
    /\ frame[r].pc = "criteria"
    /\ \E text \in CriteriaTexts :
          LET next == AfterCriteria([frame[r] EXCEPT !.raised = ""],
                                    current_response,
                                    quality_agent(Returned(text)))
          IN  /\ frame' = [frame EXCEPT ![r] = next.frame]
              /\ current_response' = next.response
    /\ UNCHANGED outside_generate

\* The criteria call raises.
CriteriaRaises(r) ==
    /\ frame[r].pc = "criteria"
    /\ \E message \in ErrorMessages :
          LET next == AfterCriteria([frame[r] EXCEPT !.raised = "quality"],
                                    current_response,
                                    quality_agent(Raised(message)))
          IN  /\ frame' = [frame EXCEPT ![r] = next.frame]
              /\ current_response' = next.response
    /\ UNCHANGED outside_generate

\* A grading call returns a reply.
GraderReturns(r) ==
    /\ frame[r].pc = "grading"
    /\ \E reply \in GraderReplies :
          frame' = [frame EXCEPT ![r] =
                        AfterGrade([@ EXCEPT !.raised = ""],
                                   current_response,
                                   grader_agent(Returned(reply)))]
    /\ UNCHANGED current_response
    /\ UNCHANGED outside_generate

\* A grading call raises.
GraderRaises(r) ==
    /\ frame[r].pc = "grading"
    /\ \E message \in ErrorMessages :
          frame' = [frame EXCEPT ![r] =
                        AfterGrade([@ EXCEPT !.raised = "grader"],
                                   current_response,
                                   grader_agent(Raised(message)))]
    /\ UNCHANGED current_response
    /\ UNCHANGED outside_generate

\* A refiner call returns a text.
RefinerReturns(r) ==
    /\ frame[r].pc = "refining"
    /\ \E text \in RefinerTexts :
          LET next == AfterRefine([frame[r] EXCEPT !.raised = ""],
                                  current_response,
                                  refiner_agent(Returned(text)))
          IN  /\ frame' = [frame EXCEPT ![r] = next.frame]
              /\ current_response' = next.response
    /\ UNCHANGED outside_generate

\* A refiner call raises.
RefinerRaises(r) ==
    /\ frame[r].pc = "refining"
    /\ \E message \in ErrorMessages :
          LET next == AfterRefine([frame[r] EXCEPT !.raised = "refiner"],
                                  current_response,
                                  refiner_agent(Raised(message)))
          IN  /\ frame' = [frame EXCEPT ![r] = next.frame]
              /\ current_response' = next.response
    /\ UNCHANGED outside_generate

\* The caller has the returned text; the slot is free for the next call.
Return(r) ==
    /\ frame[r].pc = "done"
    /\ frame' = [frame EXCEPT ![r] = IdleFrame]
    /\ UNCHANGED current_response
    /\ UNCHANGED outside_generate

Next ==
    \E r \in Requests :
        \/ Call(r)
        \/ GenerationReturns(r)
        \/ GenerationRaises(r)
        \/ CriteriaReturns(r)
        \/ CriteriaRaises(r)
        \/ GraderReturns(r)
        \/ GraderRaises(r)
        \/ RefinerReturns(r)
        \/ RefinerRaises(r)
        \/ Return(r)

Spec == Init /\ [][Next]_vars

\* A caller calls generate_response while another call of the same
\* assistant may be waiting for the model service (two threads that share
\* the object): Call without the guard that the calls are one after the
\* other.  The calls differ in use_agents alone: they have no files, no
\* tools, no history and the smallest max_refinements, none of which is
\* kept on the object.
ConcurrentCall(r) ==
    /\ frame[r].pc = "idle"
    /\ progress_callback # "raises"
    /\ \E prompt \in Prompts, use_agents \in BOOLEAN :
          frame' = [frame EXCEPT ![r] =
                        Begin(@, current_response,
                              [prompt |-> prompt,
                               uploaded_file_objects |-> <<>>,
                               use_search |-> FALSE,
                               use_code_execution |-> FALSE,
                               use_agents |-> use_agents,
                               max_refinements |-> MinRefinements,
                               conversation_history |-> <<>>])]
    /\ current_response' = ResetResponse(current_response)
    /\ UNCHANGED outside_generate

NextConcurrent ==
    \E r \in Requests :
        \/ ConcurrentCall(r)
        \/ GenerationReturns(r)
        \/ GenerationRaises(r)
        \/ CriteriaReturns(r)
        \/ CriteriaRaises(r)
        \/ GraderReturns(r)
        \/ GraderRaises(r)
        \/ RefinerReturns(r)
        \/ RefinerRaises(r)
        \/ Return(r)

\* The calls of generate_response interleaved at their model calls.
SpecConcurrent == Init /\ [][NextConcurrent]_vars

\* The model call a request waits for returns or raises.
Completes(r) ==
    \/ GenerationReturns(r)
    \/ GenerationRaises(r)
    \/ CriteriaReturns(r)
    \/ CriteriaRaises(r)
    \/ GraderReturns(r)
    \/ GraderRaises(r)
    \/ RefinerReturns(r)
    \/ RefinerRaises(r)

\* Spec with every model call coming back: client.models.generate_content
\* is a blocking call, and a call that is waited for ends.
SpecFair == Spec /\ \A r \in Requests : WF_vars(Completes(r))

(***************************************************************************)
(* The registry of uploaded files: upload_file and cleanup_uploaded_files, *)
(* with progress_callback None or a sink that returns.                     *)
(***************************************************************************)
\* The names the service gives to uploaded files: name k stands for the
\* uploaded_file.name of the k-th file it can hold.
FileNames == 1..MaxFiles

\* No generate_response call is between its entry and its return: the
\* caller's script calls the assistant's methods one after the other.
Quiescent == \A r \in Requests : frame[r].pc = "idle"

\* The record of one call on the registry.
RegistryOp(op, before, attempts, returned) ==
    [op |-> op, before |-> before, attempts |-> attempts,
     returned |-> returned,
     previous |-> [op |-> registry_op.op, before |-> registry_op.before]]

\* if not self.uploaded_files: return
NothingTracked(tracked) == tracked = <<>>

\* The loop of cleanup_uploaded_files stopping at the first deletion that
\* raises.
Attempts_StopAtFailure(tracked, deleted) ==
    LET failed == {k \in 1..Len(tracked) : ~deleted[k]}
        last == IF failed = {} THEN Len(tracked)
                ELSE CHOOSE k \in failed : \A j \in failed : k <= j
    IN  [k \in 1..last |-> [name |-> tracked[k], ok |-> deleted[k]]]

\* for file_name in self.uploaded_files: try: client.files.delete(...)
\* except Exception: ...  One attempt per tracked name, in order; deleted[k]
\* tells whether the k-th deletion returned (TRUE) or raised (FALSE).
Attempts(tracked, deleted) ==
    [k \in 1..Len(tracked) |-> [name |-> tracked[k], ok |-> deleted[k]]]

\* The names whose deletion succeeded.
Deleted(attempts) == {attempts[k].name : k \in {j \in 1..Len(attempts) : attempts[j].ok}}

\* self.uploaded_files left as it is at the end of cleanup.
Cleared_Keep(tracked) == tracked

\* self.uploaded_files = []
Cleared(tracked) == <<>>

\* An upload_file that does not track the name.
Track_Forgets(tracked, name) == tracked

\* self.uploaded_files.append(uploaded_file.name)
Track(tracked, name) == Append(tracked, name)

\* upload_file: the service stores the file and names it; the name is
\* tracked and the file object returned.
UploadReturns ==
    /\ Quiescent
    /\ progress_callback # "raises"
    /\ \E name \in FileNames \ remote_files :
          /\ remote_files' = remote_files \cup {name}
          /\ uploaded_files' = Track(uploaded_files, name)
          /\ registry_op' = RegistryOp("upload_file", uploaded_files, <<>>, "file")
    /\ UNCHANGED outside_registry

\* upload_file: client.files.upload raises; nothing is tracked, None is
\* returned.
UploadRaises ==
    /\ Quiescent
    /\ progress_callback # "raises"
    /\ registry_op' = RegistryOp("upload_file", uploaded_files, <<>>, "None")
    /\ UNCHANGED <<uploaded_files, remote_files>>
    /\ UNCHANGED outside_registry

\* cleanup_uploaded_files, the whole call.
Cleanup ==
    /\ Quiescent
    /\ progress_callback # "raises"
    /\ IF NothingTracked(uploaded_files)
       THEN /\ registry_op' =
                   RegistryOp("cleanup_uploaded_files", uploaded_files, <<>>, "None")
            /\ UNCHANGED <<uploaded_files, remote_files>>
       ELSE \E deleted \in [1..Len(uploaded_files) -> BOOLEAN] :
               LET attempts == Attempts(uploaded_files, deleted)
               IN  /\ remote_files' = remote_files \ Deleted(attempts)
                   /\ uploaded_files' = Cleared(uploaded_files)
                   /\ registry_op' =
                          RegistryOp("cleanup_uploaded_files", uploaded_files,
                                     attempts, "None")
    /\ UNCHANGED outside_registry

NextFiles ==
    \/ UploadReturns
    \/ UploadRaises
    \/ Cleanup

SpecFiles == Init /\ [][NextFiles]_vars

(***************************************************************************)
(* The assistant with a progress sink that raises.  log_progress calls the *)
(* sink with nothing around the call, so what the sink raises leaves       *)
(* log_progress.  The sinks modelled are None, one that always returns and *)
(* one that always raises.                                                 *)
(***************************************************************************)
ProgressSinks == {"returns", "raises"}

\* The caller sets assistant.progress_callback before it calls the assistant.
InstallSink ==
    /\ Quiescent
    /\ \E sink \in ProgressSinks : progress_callback' = sink
    /\ UNCHANGED <<current_response, frame, uploaded_files, remote_files,
                   registry_op, input_text, metrics, has_numbers>>

\* generate_response up to its first log_progress call (the one before the
\* initial generation is always reached), which raises inside the try; the
\* except clause calls log_progress again, and that exception leaves
\* generate_response: no model call is made and nothing is returned.
BeginSinkRaises(f, args) ==
    [f EXCEPT !.pc = "done",
              !.prompt = args.prompt,
              !.uploaded_file_objects = args.uploaded_file_objects,
              !.use_search = args.use_search,
              !.use_code_execution = args.use_code_execution,
              !.use_agents = args.use_agents,
              !.max_refinements = args.max_refinements,
              !.conversation_history = args.conversation_history,
              !.exit = "raised",
              !.raised = "progress_callback"]

\* A caller calls generate_response of an assistant whose sink raises.
CallSinkRaises(r) ==
    /\ frame[r].pc = "idle"
    /\ Sequential(r)
    /\ progress_callback = "raises"
    /\ \E prompt \in Prompts, files \in FileObjects,
          use_search \in BOOLEAN, use_code_execution \in BOOLEAN,
          use_agents \in BOOLEAN,
          max_refinements \in MinRefinements..MaxRefinements,
          conversation_history \in Histories :
          frame' = [frame EXCEPT ![r] =
                        BeginSinkRaises(@,
                              [prompt |-> prompt,
                               uploaded_file_objects |-> files,
                               use_search |-> use_search,
                               use_code_execution |-> use_code_execution,
                               use_agents |-> use_agents,
                               max_refinements |-> max_refinements,
                               conversation_history |-> conversation_history])]
    /\ current_response' = ResetResponse(current_response)
    /\ UNCHANGED outside_generate

\* upload_file with a sink that raises: the first log_progress raises inside
\* the try, and the log_progress of the except clause raises out of
\* upload_file before anything is uploaded.
UploadSinkRaises ==
    /\ Quiescent
    /\ progress_callback = "raises"
    /\ registry_op' = RegistryOp("upload_file", uploaded_files, <<>>, "raised")
    /\ UNCHANGED <<uploaded_files, remote_files>>
    /\ UNCHANGED outside_registry

\* cleanup_uploaded_files with a sink that raises: with nothing tracked it
\* returns before any log_progress call; otherwise the log_progress before
\* the loop raises out of it, with no deletion attempted and the registry
\* as it was.
CleanupSinkRaises ==
    /\ Quiescent
    /\ progress_callback = "raises"
    /\ registry_op' =
           RegistryOp("cleanup_uploaded_files", uploaded_files, <<>>,
                      IF NothingTracked(uploaded_files) THEN "None" ELSE "raised")
    /\ UNCHANGED <<uploaded_files, remote_files>>
    /\ UNCHANGED outside_registry

NextSink ==
    \/ InstallSink
    \/ UploadReturns
    \/ UploadRaises
    \/ Cleanup
    \/ UploadSinkRaises
    \/ CleanupSinkRaises
    \/ \E r \in Requests : CallSinkRaises(r)
    \/ \E r \in Requests : Return(r)

SpecSink == Init /\ [][NextSink]_vars

(***************************************************************************)
(* src/app.py: the single-file assistant.  Its generate_response takes the *)
(* attachments inline (file_contexts), has the search tool alone, grades   *)
(* with a bare-token reply and shows the response without markdown.        *)
(***************************************************************************)
\* "\n=== END HISTORY ===\n\n"
EndHistory ==
    <<"\n","=","=","="," ","E","N","D"," ","H","I","S","T","O","R","Y"," ",
      "=","=","=","\n","\n">>

\* "\n\n=== ATTACHED FILE CONTEXTS ===\n\n"
AttachedHeader ==
    <<"\n","\n","=","=","="," ","A","T","T","A","C","H","E","D"," ","F","I",
      "L","E"," ","C","O","N","T","E","X","T","S"," ","=","=","=","\n","\n">>

\* "--- File: "
FileOpen == <<"-","-","-"," ","F","i","l","e",":"," ">>

\* " ---\n"
FileClose == <<" ","-","-","-","\n">>

\* "=== USER PROMPT ===\n\n"
UserPromptLabel ==
    <<"=","=","="," ","U","S","E","R"," ","P","R","O","M","P","T"," ","=",
      "=","=","\n","\n">>

\* The conversation histories, the inline attachments (file_contexts, in
\* the order of the dict), the texts and the grader replies of the app.
AppHistories ==
    {<<>>,
     <<[role |-> <<"u","s","e","r">>, content |-> <<"A">>]>>,
     <<[role |-> <<"u","s","e","r">>, content |-> <<"A">>],
       [role |-> <<"a","s","s","i","s","t","a","n","t">>, content |-> <<"B">>]>>}

AppFileContexts ==
    {<<>>,
     <<[filename |-> <<"f",".","t","x","t">>, content |-> <<"D","A","T","A">>]>>,
     <<[filename |-> <<"f",".","t","x","t">>, content |-> <<"D","A","T","A">>],
       [filename |-> <<"g">>, content |-> <<"E">>]>>}

AppGenerationTexts == {<<>>, <<"a">>, <<" ","b","\n">>}

AppRefinerTexts == {<<>>, <<"c","\n","\n","\n","d">>}

AppGraderReplies ==
    {<<"p","a","s","s">>, <<"n","o">>, <<" ","P","a","s","s","\n">>,
     <<"e","r","r","o","r">>}

\* self.config_no_search
config_no_search == {}

\* config = self.config_with_search if use_search else self.config_no_search
app_config(use_search) ==
    IF use_search THEN config_with_search ELSE config_no_search

\* re.sub(r'\n{3,}', '\n\n', text)
RECURSIVE CollapseNewlines(_)
CollapseNewlines(s) ==
    IF Len(s) < 3 THEN s
    ELSE IF s[1] = "\n" /\ s[2] = "\n" /\ s[3] = "\n"
    THEN CollapseNewlines(Tail(s))
    ELSE <<Head(s)>> \o CollapseNewlines(Tail(s))

\* strip_markdown on a text with none of the characters # * _ ~ ` [ - in
\* it (the texts of the app above): every substitution but the one of the
\* newlines leaves such a text as it is.
strip_markdown(s) == Strip(CollapseNewlines(s))

\* The history block of generate_response, with its closing line.
app_history_context(conversation_history) ==
    IF conversation_history = <<>>
    THEN <<>>
    ELSE HistoryHeader \o HistoryLines(conversation_history) \o EndHistory

\* context_section += f"--- File: {filename} ---\n{content}\n\n"
RECURSIVE FileSections(_)
FileSections(file_contexts) ==
    IF file_contexts = <<>>
    THEN <<>>
    ELSE LET file == Head(file_contexts)
         IN  FileOpen \o file.filename \o FileClose \o file.content
                 \o <<"\n","\n">> \o FileSections(Tail(file_contexts))

\* A composer that puts the prompt before the attachments.
app_full_prompt_PromptFirst(prompt, file_contexts, conversation_history) ==
    IF file_contexts # <<>>
    THEN app_history_context(conversation_history) \o UserPromptLabel
             \o prompt \o AttachedHeader \o FileSections(file_contexts)
    ELSE app_history_context(conversation_history) \o prompt

\* full_prompt of generate_response.
app_full_prompt(prompt, file_contexts, conversation_history) ==
    IF file_contexts # <<>>
    THEN app_history_context(conversation_history) \o AttachedHeader
             \o FileSections(file_contexts) \o UserPromptLabel \o prompt
    ELSE app_history_context(conversation_history) \o prompt

\* grader_agent: response.text.strip().lower(), or "error" when the call
\* raised.
app_grader_agent(outcome) ==
    IF outcome.raised THEN ErrorWord ELSE Lower(Strip(outcome.text))

\* Entry up to the initial generate_content call.
AppBegin(f, args) ==
    LET full_prompt == app_full_prompt(args.prompt, args.file_contexts,
                                       args.conversation_history)
    IN  [f EXCEPT !.pc = "generating",
                  !.prompt = args.prompt,
                  !.file_contexts = args.file_contexts,
                  !.use_search = args.use_search,
                  !.use_agents = args.use_agents,
                  !.max_refinements = args.max_refinements,
                  !.conversation_history = args.conversation_history,
                  !.full_prompt = full_prompt,
                  !.contents = <<full_prompt>>,
                  !.config = app_config(args.use_search)]

\* The for statement reaching index i: the next grading call, or the else
\* clause (a log line) and the return after it.
AppLoopAt(f, cr, i) ==
    IF InRange(i, f.max_refinements)
    THEN [f EXCEPT !.pc = "grading", !.i = i]
    ELSE Finish([f EXCEPT !.i = i], cr, "bound")

\* The initial generation returned.
AppAfterGeneration(f, text) ==
    LET f1 == [f EXCEPT !.current = text, !.calls.generate = @ + 1]
    IN  IF AgentsDisabled(f.use_agents)
        THEN Finish(f1, strip_markdown(text), "disabled")
        ELSE [f1 EXCEPT !.pc = "criteria"]

\* quality_agent returned.
AppAfterCriteria(f, cr, criteria) ==
    LET f1 == [f EXCEPT !.calls.quality = @ + 1]
    IN  IF CriteriaMissing(criteria)
        THEN Finish(f1, cr, "no_criteria")
        ELSE AppLoopAt([f1 EXCEPT !.criteria = criteria.text], cr, 0)

\* grader_agent returned grade.
AppAfterGrade(f, cr, grade) ==
    LET f1 == [f EXCEPT !.grade = grade, !.calls.grader = @ + 1]
    IN  IF IsPass(grade) THEN Finish(f1, cr, "pass")
        ELSE IF IsError(grade) THEN Finish(f1, cr, "grader_error")
        ELSE [f1 EXCEPT !.pc = "refining"]

\* refiner_agent returned new_response.  The result is the pair of the
\* frame and self.current_response.
AppAfterRefine(f, cr, new_response) ==
    LET f1 == [f EXCEPT !.calls.refiner = @ + 1]
    IN  IF RefinementMissing(new_response)
        THEN [frame |-> Finish(f1, cr, "refiner_failed"), response |-> cr]
        ELSE [frame |-> AppLoopAt([f1 EXCEPT !.current = new_response.text],
                                  strip_markdown(new_response.text), f.i + 1),
              response |-> strip_markdown(new_response.text)]

\* A caller calls generate_response of the app.
AppCall(r) ==
    /\ frame[r].pc = "idle"
    /\ Sequential(r)
    /\ progress_callback # "raises"
    /\ \E prompt \in Prompts, file_contexts \in AppFileContexts,
          use_search \in BOOLEAN, use_agents \in BOOLEAN,
          max_refinements \in MinRefinements..MaxRefinements,
          conversation_history \in AppHistories :
          frame' = [frame EXCEPT ![r] =
                        AppBegin(@,
                              [prompt |-> prompt,
                               file_contexts |-> file_contexts,
                               use_search |-> use_search,
                               use_agents |-> use_agents,
                               max_refinements |-> max_refinements,
                               conversation_history |-> conversation_history])]
    /\ current_response' = ResetResponse(current_response)
    /\ UNCHANGED outside_generate

AppGenerationReturns(r) ==
    /\ frame[r].pc = "generating"
    /\ \E text \in AppGenerationTexts :
          /\ frame' = [frame EXCEPT ![r] =
                           AppAfterGeneration([@ EXCEPT !.raised = ""], text)]
          /\ current_response' = strip_markdown(text)
    /\ UNCHANGED outside_generate

AppGenerationRaises(r) ==
    /\ frame[r].pc = "generating"
    /\ \E message \in ErrorMessages :
          frame' = [frame EXCEPT ![r] =
                        Finish([@ EXCEPT !.calls.generate = @ + 1,
                                         !.raised = "generate"],
                               HandleException(current_response, message),
                               "generation_error")]
    /\ UNCHANGED current_response
    /\ UNCHANGED outside_generate

AppCriteriaReturns(r) ==
    /\ frame[r].pc = "criteria"
    /\ \E text \in CriteriaTexts :
          frame' = [frame EXCEPT ![r] =
                        AppAfterCriteria([@ EXCEPT !.raised = ""],
                                         current_response,
                                         quality_agent(Returned(text)))]
    /\ UNCHANGED current_response
    /\ UNCHANGED outside_generate

AppCriteriaRaises(r) ==
    /\ frame[r].pc = "criteria"
    /\ \E message \in ErrorMessages :
          frame' = [frame EXCEPT ![r] =
                        AppAfterCriteria([@ EXCEPT !.raised = "quality"],
                                         current_response,
                                         quality_agent(Raised(message)))]
    /\ UNCHANGED current_response
    /\ UNCHANGED outside_generate

AppGraderReturns(r) ==
    /\ frame[r].pc = "grading"
    /\ \E reply \in AppGraderReplies :
          frame' = [frame EXCEPT ![r] =
                        AppAfterGrade([@ EXCEPT !.raised = ""],
                                      current_response,
                                      app_grader_agent(Returned(reply)))]
    /\ UNCHANGED current_response
    /\ UNCHANGED outside_generate

AppGraderRaises(r) ==
    /\ frame[r].pc = "grading"
    /\ \E message \in ErrorMessages :
          frame' = [frame EXCEPT ![r] =
                        AppAfterGrade([@ EXCEPT !.raised = "grader"],
                                      current_response,
                                      app_grader_agent(Raised(message)))]
    /\ UNCHANGED current_response
    /\ UNCHANGED outside_generate

AppRefinerReturns(r) ==
    /\ frame[r].pc = "refining"
    /\ \E text \in AppRefinerTexts :
          LET next == AppAfterRefine([frame[r] EXCEPT !.raised = ""],
                                     current_response,
                                     refiner_agent(Returned(text)))
          IN  /\ frame' = [frame EXCEPT ![r] = next.frame]
              /\ current_response' = next.response
    /\ UNCHANGED outside_generate

AppRefinerRaises(r) ==
    /\ frame[r].pc = "refining"
    /\ \E message \in ErrorMessages :
          LET next == AppAfterRefine([frame[r] EXCEPT !.raised = "refiner"],
                                     current_response,
                                     refiner_agent(Raised(message)))
          IN  /\ frame' = [frame EXCEPT ![r] = next.frame]
              /\ current_response' = next.response
    /\ UNCHANGED outside_generate

NextApp ==
    \E r \in Requests :
        \/ AppCall(r)
        \/ AppGenerationReturns(r)
        \/ AppGenerationRaises(r)
        \/ AppCriteriaReturns(r)
        \/ AppCriteriaRaises(r)
        \/ AppGraderReturns(r)
        \/ AppGraderRaises(r)
        \/ AppRefinerReturns(r)
        \/ AppRefinerRaises(r)
        \/ Return(r)

SpecApp == Init /\ [][NextApp]_vars

(***************************************************************************)
(* The text utilities: count_words of src/text_utils.py (src/app.py has    *)
(* the same function).                                                     *)
(***************************************************************************)
\* The characters of the texts given to count_words.
Alphabet == {"a", "2", " ", "\n", "\t", ".", "!", "?"}

\* The texts of exactly n characters of the alphabet.
RECURSIVE TextsOfLen(_)
TextsOfLen(n) ==
    IF n = 0 THEN {<<>>}
    ELSE {Append(t, c) : t \in TextsOfLen(n - 1), c \in Alphabet}

\* "no digits here"
NoDigitsHere ==
    <<"n","o"," ","d","i","g","i","t","s"," ","h","e","r","e">>

\* "v2 release"
V2Release == <<"v","2"," ","r","e","l","e","a","s","e">>

\* "a b c" and "Hi. Wow!", and the two texts above.
ExampleTexts ==
    {<<"a"," ","b"," ","c">>, <<"H","i","."," ","W","o","w","!">>,
     NoDigitsHere, V2Release}

\* The texts given to count_words: every text of the alphabet up to
\* MaxLen characters, and the examples.
Texts == UNION {TextsOfLen(n) : n \in 0..MaxLen} \cup ExampleTexts

\* text.split(): the runs of non-whitespace characters, in order.
RECURSIVE SplitWords(_, _)
SplitWords(s, word) ==
    IF s = <<>>
    THEN IF word = <<>> THEN <<>> ELSE <<word>>
    ELSE IF IsSpace(Head(s))
    THEN (IF word = <<>> THEN <<>> ELSE <<word>>) \o SplitWords(Tail(s), <<>>)
    ELSE SplitWords(Tail(s), Append(word, Head(s)))

\* text.count(c)
RECURSIVE Count(_, _)
Count(s, c) ==
    IF s = <<>> THEN 0
    ELSE (IF Head(s) = c THEN 1 ELSE 0) + Count(Tail(s), c)

\* text.replace(c, '')
RECURSIVE Without(_, _)
Without(s, c) ==
    IF s = <<>> THEN <<>>
    ELSE (IF Head(s) = c THEN <<>> ELSE <<Head(s)>>) \o Without(Tail(s), c)

\* The result of count_words: (words, sentences, chars).
Metrics(words, sentences, chars) ==
    [called |-> TRUE, words |-> words, sentences |-> sentences,
     chars |-> chars]

\* A count_words that takes the tabs out of the character count too.
count_words_NoTabs(s) ==
    IF ~Truthy(s) \/ ~Truthy(Strip(s))
    THEN Metrics(0, 0, 0)
    ELSE Metrics(Len(SplitWords(s, <<>>)),
                 Count(s, ".") + Count(s, "!") + Count(s, "?"),
                 Len(Without(Without(Without(s, " "), "\n"), "\t")))

\* A count_words that counts the periods alone as sentence ends.
count_words_PeriodsOnly(s) ==
    IF ~Truthy(s) \/ ~Truthy(Strip(s))
    THEN Metrics(0, 0, 0)
    ELSE Metrics(Len(SplitWords(s, <<>>)),
                 Count(s, "."),
                 Len(Without(Without(s, " "), "\n")))

\* count_words(text)
count_words(s) ==
    IF ~Truthy(s) \/ ~Truthy(Strip(s))
    THEN Metrics(0, 0, 0)
    ELSE Metrics(Len(SplitWords(s, <<>>)),
                 Count(s, ".") + Count(s, "!") + Count(s, "?"),
                 Len(Without(Without(s, " "), "\n")))

\* A caller has a text and has not called count_words on it yet.
InitText ==
    /\ current_response = <<>>
    /\ frame = [r \in Requests |-> IdleFrame]
    /\ progress_callback = "None"
    /\ uploaded_files = <<>>
    /\ remote_files = {}
    /\ registry_op = NoRegistryOp
    /\ input_text \in Texts
    /\ metrics = NoMetrics
    /\ has_numbers = NoAnswer

\* The caller calls count_words on its text.
CountWords ==
    /\ metrics' = count_words(input_text)
    /\ UNCHANGED <<input_text, has_numbers>>
    /\ UNCHANGED outside_text

\* The caller (grader_agent) calls contains_numbers on its text.
ContainsNumbers ==
    /\ has_numbers' = [called |-> TRUE, value |-> contains_numbers(input_text)]
    /\ UNCHANGED <<input_text, metrics>>
    /\ UNCHANGED outside_text

NextText ==
    \/ CountWords
    \/ ContainsNumbers

SpecText == InitText /\ [][NextText]_vars

(***************************************************************************)
(* Properties.                                                             *)
(***************************************************************************)
\* A call that is between its entry and the caller's taking of its result.
Active(r) == frame[r].pc # "idle"

\* C1: one generate_response call invokes the grader at most
\* max_refinements times, whatever the model calls return or raise.
C1_GraderAtMostN ==
    \A r \in Requests : frame[r].calls.grader <= frame[r].max_refinements

\* A call that has returned after MaxRefinements > 1 grading calls.
C1_Witness ==
    \E r \in Requests :
        /\ frame[r].pc = "done"
        /\ frame[r].max_refinements = MaxRefinements
        /\ frame[r].calls.grader = MaxRefinements
        /\ MaxRefinements > 1

\* C2 as stated: one generate_response call invokes the refiner at most
\* max_refinements - 1 times.
C2_RefinerAtMostNMinus1 ==
    \A r \in Requests :
        Active(r) => frame[r].calls.refiner + 1 <= frame[r].max_refinements

\* C2, amended: one generate_response call invokes the refiner at most
\* max_refinements times, and never more often than the grader.
C2_RefinerAtMostN ==
    \A r \in Requests :
        /\ frame[r].calls.refiner <= frame[r].max_refinements
        /\ frame[r].calls.refiner <= frame[r].calls.grader

\* A call that has returned after as many refiner calls as max_refinements.
C2_Witness ==
    \E r \in Requests :
        /\ frame[r].pc = "done"
        /\ frame[r].max_refinements = MaxRefinements
        /\ frame[r].calls.refiner = MaxRefinements

\* C3: once a grading yields a grade that holds "pass", on any turn of the
\* loop, the call has returned the candidate that was graded, and the
\* refiner has run only in the turns before that one.
C3_PassShortCircuit ==
    \A r \in Requests :
        (Active(r) /\ frame[r].calls.grader > 0
            /\ Contains(frame[r].grade, PassWord))
        => /\ frame[r].pc = "done"
           /\ frame[r].ret = frame[r].graded
           /\ frame[r].ret = current_response
           /\ frame[r].calls.refiner = frame[r].i
           /\ frame[r].calls.grader = frame[r].i + 1

\* A pass on the last allowed turn, after refinements in the earlier turns.
C3_Witness ==
    \E r \in Requests :
        /\ frame[r].pc = "done"
        /\ frame[r].grade = PassWord
        /\ frame[r].max_refinements > 1
        /\ frame[r].i + 1 = frame[r].max_refinements
        /\ frame[r].calls.refiner = frame[r].i
        /\ Truthy(frame[r].ret)

\* The model calls a returned call has made, by role.
Calls(g, q, gr, rf) ==
    [generate |-> g, quality |-> q, grader |-> gr, refiner |-> rf]

\* C4: once a grading call has raised, on any turn of the loop, the grader
\* has yielded "error" with the exception's message, the call has returned
\* the candidate that was current, unchanged, and neither the refiner (in
\* that turn) nor the grader (again) has been called.
C4_ErrorShortCircuit ==
    \A r \in Requests :
        frame[r].raised = "grader"
        => /\ frame[r].pc = "done"
           /\ frame[r].grade = ErrorWord
           /\ frame[r].failed_criteria \in ErrorMessages
           /\ frame[r].ret = frame[r].graded
           /\ frame[r].ret = frame[r].current
           /\ frame[r].ret = current_response
           /\ frame[r].calls.refiner = frame[r].i
           /\ frame[r].calls.grader = frame[r].i + 1

\* A grading call that raised in a later turn, on a refined candidate.
C4_Witness ==
    \E r \in Requests :
        /\ frame[r].raised = "grader"
        /\ frame[r].pc = "done"
        /\ frame[r].i > 0
        /\ frame[r].i + 1 < frame[r].max_refinements
        /\ Truthy(frame[r].ret)

\* C5: once a refiner call has raised, the call has returned, without
\* raising and without another grader or refiner call, the candidate that
\* was current before that refiner call.
C5_RefinerFailure ==
    \A r \in Requests :
        frame[r].raised = "refiner"
        => /\ frame[r].pc = "done"
           /\ frame[r].exit = "refiner_failed"
           /\ frame[r].ret = frame[r].graded
           /\ frame[r].ret = frame[r].current
           /\ frame[r].ret = current_response
           /\ frame[r].calls.refiner = frame[r].i + 1
           /\ frame[r].calls.grader = frame[r].i + 1

\* A refiner call that raised in a later turn, with turns left.
C5_Witness ==
    \E r \in Requests :
        /\ frame[r].raised = "refiner"
        /\ frame[r].pc = "done"
        /\ frame[r].i > 0
        /\ frame[r].i + 1 < frame[r].max_refinements
        /\ Truthy(frame[r].ret)

\* The call has returned after max_refinements fail verdicts, each followed
\* by a refinement that succeeded.
BoundReached(r) ==
    /\ frame[r].pc = "done"
    /\ frame[r].raised = ""
    /\ frame[r].calls.grader = frame[r].max_refinements
    /\ frame[r].calls.refiner = frame[r].max_refinements

\* C6: when all max_refinements turns graded fail and the last failed
\* criteria are neither empty nor "none", the returned text is the final
\* candidate, then the quality notice, then those failed criteria.
C6_BoundReachedFeedback ==
    \A r \in Requests :
        (/\ BoundReached(r)
         /\ frame[r].failed_criteria # <<>>
         /\ Lower(frame[r].failed_criteria) # NoneWord)
        => /\ frame[r].ret =
                  frame[r].current \o QualityNotice \o frame[r].failed_criteria
           /\ Contains(frame[r].ret, frame[r].failed_criteria)
           /\ current_response = frame[r].ret

\* Two turns that failed, the last with failed criteria to show.
C6_Witness ==
    \E r \in Requests :
        /\ BoundReached(r)
        /\ frame[r].max_refinements = 2
        /\ frame[r].failed_criteria = <<"g","o","t"," ","3","2","0">>
        /\ Truthy(frame[r].current)

\* C7: with use_agents false a call makes the initial generation call and no
\* other: it never waits for a criteria, grading or refiner call, and when
\* the generation returns a text the call returns that text.
C7_AgentsDisabled ==
    \A r \in Requests :
        (Active(r) /\ ~frame[r].use_agents)
        => /\ frame[r].pc \in {"generating", "done"}
           /\ frame[r].pc = "done"
                  => frame[r].calls = Calls(1, 0, 0, 0)
           /\ (frame[r].pc = "done" /\ frame[r].raised = "")
                  => /\ frame[r].ret = frame[r].current
                     /\ frame[r].ret = current_response
                     /\ frame[r].ret \in GenerationTexts

\* A call with agents disabled that returned a generated text.
C7_Witness ==
    \E r \in Requests :
        /\ frame[r].pc = "done"
        /\ ~frame[r].use_agents
        /\ frame[r].raised = ""
        /\ Truthy(frame[r].ret)

\* C8: once the criteria call has raised, the call has returned the initial
\* candidate after one generation call and one criteria call, with no
\* grader or refiner call; no call makes a second criteria call.
C8_CriteriaFailure ==
    \A r \in Requests :
        /\ frame[r].calls.quality <= 1
        /\ frame[r].raised = "quality"
               => /\ frame[r].pc = "done"
                  /\ frame[r].calls = Calls(1, 1, 0, 0)
                  /\ frame[r].ret = frame[r].current
                  /\ frame[r].ret = current_response
                  /\ frame[r].ret \in GenerationTexts

\* A criteria call that raised after a generation that gave a text.
C8_Witness ==
    \E r \in Requests :
        /\ frame[r].raised = "quality"
        /\ frame[r].pc = "done"
        /\ Truthy(frame[r].ret)

\* C9: once the initial generation call has raised, the call has returned
\* the text "Error: " followed by the exception's message, and has made no
\* criteria, grader or refiner call.
C9_GenerationFailure ==
    \A r \in Requests :
        frame[r].raised = "generate"
        => /\ frame[r].pc = "done"
           /\ frame[r].calls = Calls(1, 0, 0, 0)
           /\ \E message \in ErrorMessages :
                  frame[r].ret = ErrorPrefix \o message

\* A call with agents enabled whose initial generation raised.
C9_Witness ==
    \E r \in Requests :
        /\ frame[r].raised = "generate"
        /\ frame[r].pc = "done"
        /\ frame[r].use_agents

\* C10: while a call has no generated text yet, and after its initial
\* generation has raised, self.current_response is empty, and the text the
\* call returns holds nothing of what an earlier call left there.
C10_NoStaleContent ==
    \A r \in Requests :
        (frame[r].pc = "generating" \/ frame[r].raised = "generate")
        => /\ current_response = <<>>
           /\ (frame[r].pc = "done" /\ Truthy(frame[r].stale))
                  => ~Contains(frame[r].ret, frame[r].stale)

\* A failed generation on an assistant whose earlier call left a response.
C10_Witness ==
    \E r \in Requests :
        /\ frame[r].raised = "generate"
        /\ frame[r].pc = "done"
        /\ Truthy(frame[r].stale)

\* C11: a failure of the progress sink never fails the operation:
\* generate_response still returns a result, cleanup_uploaded_files still
\* completes, and no sink failure reaches the caller.
C11_SinkFailureSwallowed ==
    /\ \A r \in Requests : frame[r].exit # "raised"
    /\ registry_op.op = "cleanup_uploaded_files" =>
           /\ registry_op.returned # "raised"
           /\ uploaded_files = <<>>

\* C12 as stated: a grading call is configured with the code-execution tool
\* only if the caller's use_code_execution is true and the candidate
\* contains a numeral.
C12_GraderCodeAnded ==
    \A r \in Requests :
        (frame[r].pc = "grading" /\ "code_execution" \in frame[r].grader_config)
            => /\ frame[r].use_code_execution
               /\ \E k \in 1..Len(frame[r].current) :
                      frame[r].current[k] \in Digits

\* C12, amended: a grading call is configured with the code-execution tool
\* only if the candidate contains a numeral; the caller's use_code_execution
\* does not restrict it.
C12_GraderCodeOnlyWithNumeral ==
    \A r \in Requests :
        (frame[r].pc = "grading" /\ "code_execution" \in frame[r].grader_config)
            => \E k \in 1..Len(frame[r].current) :
                   frame[r].current[k] \in Digits

\* A grading call with code execution for a caller that had it disabled.
C12_Witness ==
    \E r \in Requests :
        /\ frame[r].pc = "grading"
        /\ ~frame[r].use_code_execution
        /\ "code_execution" \in frame[r].grader_config

\* C13: tool selection maps the four combinations of (use_search,
\* use_code_execution) to four pairwise distinct configurations: none,
\* search only, code only, both; the configuration a call works with holds
\* the search tool exactly when use_search is set and the code-execution
\* tool exactly when use_code_execution is set.
C13_ToolSelection ==
    /\ Cardinality({get_config(a, b) : a \in BOOLEAN, b \in BOOLEAN}) = 4
    /\ get_config(FALSE, FALSE) = config_no_tools
    /\ get_config(TRUE, FALSE) = config_with_search
    /\ get_config(FALSE, TRUE) = config_with_code
    /\ get_config(TRUE, TRUE) = config_with_search_and_code
    /\ \A r \in Requests :
           Active(r) =>
               /\ "google_search" \in frame[r].config <=> frame[r].use_search
               /\ "code_execution" \in frame[r].config
                      <=> frame[r].use_code_execution

\* A call with both tools set that works with the configuration of both.
C13_Witness ==
    \E r \in Requests :
        /\ frame[r].pc = "generating"
        /\ frame[r].use_search
        /\ frame[r].use_code_execution
        /\ frame[r].config = config_with_search_and_code

\* C14: a grader reply with no GRADE line or with a GRADE value other than
\* pass is a fail, for which the refiner is invoked; an empty or "none"
\* FAILED_CRITERIA value produces no quality notice.
C14_UnrecognizedGradeFails ==
    \A r \in Requests :
        /\ (/\ frame[r].calls.grader > 0
            /\ frame[r].raised # "grader"
            /\ ~Contains(frame[r].grade, PassWord))
               => frame[r].calls.refiner
                     + (IF frame[r].pc = "refining" THEN 1 ELSE 0)
                     >= frame[r].calls.grader
        /\ (/\ frame[r].pc = "done"
            /\ frame[r].exit = "bound"
            /\ \/ frame[r].last_failed_criteria = <<>>
               \/ Lower(frame[r].last_failed_criteria) = NoneWord)
               => frame[r].ret = frame[r].current

\* C15: with the bare-token reply of src/app.py, the verdict is pass exactly
\* when the lower-cased reply contains "pass", and every reply obtained from
\* a grading call that succeeded and without that substring is a fail for
\* which the refiner is invoked.
C15_BareTokenVerdict ==
    \A r \in Requests :
        /\ frame[r].exit = "pass" => Contains(frame[r].grade, PassWord)
        /\ (frame[r].calls.grader > 0 /\ Contains(frame[r].grade, PassWord))
               => frame[r].exit = "pass"
        /\ (/\ frame[r].calls.grader > 0
            /\ frame[r].raised # "grader"
            /\ ~Contains(frame[r].grade, PassWord))
               => frame[r].calls.refiner
                     + (IF frame[r].pc = "refining" THEN 1 ELSE 0)
                     >= frame[r].calls.grader

\* The place of the first occurrence of sub in s, 0 when there is none.
Pos(s, sub) ==
    LET places == {k \in 1..(Len(s) + 1 - Len(sub)) :
                       SubSeq(s, k, k + Len(sub) - 1) = sub}
    IN  IF places = {} THEN 0
        ELSE CHOOSE k \in places : \A j \in places : k <= j

\* C16: with a history and inline attachments, the composed text holds the
\* history block (its turns as ROLE: content in their order), then the
\* attached-file block (each filename followed by its text, in their
\* order), then the user-prompt label, then the prompt, which ends it.
C16_ComposerOrdering ==
    \A r \in Requests :
        (/\ Active(r)
         /\ frame[r].conversation_history # <<>>
         /\ frame[r].file_contexts # <<>>)
            => LET p == frame[r].full_prompt
                   history == frame[r].conversation_history
                   files == frame[r].file_contexts
                   h == Pos(p, HistoryHeader)
                   e == Pos(p, EndHistory)
                   a == Pos(p, AttachedHeader)
                   u == Pos(p, UserPromptLabel)
                   turn(k) == Pos(p, Upper(history[k].role) \o <<":", " ">>
                                         \o history[k].content \o <<"\n">>)
                   file(j) == Pos(p, FileOpen \o files[j].filename
                                         \o FileClose \o files[j].content)
               IN  /\ 0 < h
                   /\ h + Len(HistoryHeader) <= e
                   /\ e + Len(EndHistory) <= a
                   /\ a + Len(AttachedHeader) <= u
                   /\ SubSeq(p, u + Len(UserPromptLabel), Len(p))
                         = frame[r].prompt
                   /\ \A k \in 1..Len(history) : h < turn(k) /\ turn(k) < e
                   /\ \A k \in 1..(Len(history) - 1) : turn(k) < turn(k + 1)
                   /\ \A j \in 1..Len(files) : a < file(j) /\ file(j) < u
                   /\ \A j \in 1..(Len(files) - 1) : file(j) < file(j + 1)

\* A call composed from two turns of history and two attachments.
C16_Witness ==
    \E r \in Requests :
        /\ frame[r].pc = "generating"
        /\ Len(frame[r].conversation_history) = 2
        /\ Len(frame[r].file_contexts) = 2
        /\ frame[r].full_prompt # <<>>

\* C17: one cleanup_uploaded_files call attempts the deletion of every name
\* tracked at the time of the call exactly once, whichever deletions fail,
\* and raises nothing to its caller.
C17_CleanupBestEffort ==
    registry_op.op = "cleanup_uploaded_files" =>
        /\ Len(registry_op.attempts) = Len(registry_op.before)
        /\ \A k \in 1..Len(registry_op.before) :
               Cardinality({j \in 1..Len(registry_op.attempts) :
                                registry_op.attempts[j].name
                                    = registry_op.before[k]}) = 1
        /\ registry_op.returned = "None"

\* A cleanup in which a deletion failed and a later name was attempted.
C17_Witness ==
    /\ registry_op.op = "cleanup_uploaded_files"
    /\ \E j \in 1..Len(registry_op.attempts) :
          /\ ~registry_op.attempts[j].ok
          /\ j < Len(registry_op.attempts)
          /\ registry_op.attempts[j + 1].name = registry_op.before[j + 1]

\* C18: cleanup_uploaded_files called twice in a row raises nothing, the
\* registry is empty after each of the two calls, and the second call
\* attempts no deletion.
C18_CleanupIdempotent ==
    registry_op.op = "cleanup_uploaded_files" =>
        /\ registry_op.returned = "None"
        /\ uploaded_files = <<>>
        /\ registry_op.previous.op = "cleanup_uploaded_files" =>
               /\ registry_op.before = <<>>
               /\ registry_op.attempts = <<>>

\* A second cleanup right after one that had names to delete.
C18_Witness ==
    /\ registry_op.op = "cleanup_uploaded_files"
    /\ registry_op.previous.op = "cleanup_uploaded_files"
    /\ registry_op.previous.before # <<>>
    /\ registry_op.attempts = <<>>

\* The places of a text where a whitespace-delimited token starts.
TokenStarts(s) ==
    {k \in 1..Len(s) : ~IsSpace(s[k]) /\ (k = 1 \/ IsSpace(s[k - 1]))}

C20_MetricsExamplesAsStated ==
    metrics.called =>
        /\ input_text = <<>>
               => metrics = Metrics(0, 0, 0)
        /\ input_text = <<"a"," ","b"," ","c">>
               => metrics = Metrics(3, 0, 3)
        /\ input_text = <<"H","i","."," ","W","o","w","!">>
               => metrics = Metrics(2, 2, 6)

\* C20, amended: count_words returns (0,0,0) for "", (3,0,3) for "a b c"
\* and (2,2,7) for "Hi. Wow!", whose characters other than the space are
\* seven.
C20_MetricsExamples ==
    metrics.called =>
        /\ input_text = <<>>
               => metrics = Metrics(0, 0, 0)
        /\ input_text = <<"a"," ","b"," ","c">>
               => metrics = Metrics(3, 0, 3)
        /\ input_text = <<"H","i","."," ","W","o","w","!">>
               => metrics = Metrics(2, 2, 7)

\* count_words called on "Hi. Wow!".
C20_Witness ==
    /\ metrics.called
    /\ input_text = <<"H","i","."," ","W","o","w","!">>

\* C21: contains_numbers(text) is true exactly when a decimal digit occurs
\* in the text, false for "no digits here" and true for "v2 release", and
\* for either setting of use_search the grader's configuration holds the
\* code-execution tool exactly when contains_numbers is true of the
\* candidate.
C21_ContainsNumerals ==
    has_numbers.called =>
        /\ has_numbers.value
               <=> \E k \in 1..Len(input_text) : input_text[k] \in Digits
        /\ input_text = NoDigitsHere => ~has_numbers.value
        /\ input_text = V2Release => has_numbers.value
        /\ \A use_search \in BOOLEAN :
               "code_execution" \in grader_config(input_text, use_search)
                   <=> has_numbers.value

\* contains_numbers called on "v2 release".
C21_Witness ==
    /\ has_numbers.called
    /\ has_numbers.value
    /\ input_text = V2Release

\* C22: once the initial generation of a request has succeeded with a text,
\* current_response is non-empty in every later state of the request,
\* whatever the refiner calls return: no step of a request that is past its
\* initial generation takes a non-empty current_response to an empty one.
C22_NeverEmptied ==
    [][\A r \in Requests :
           (/\ frame[r].pc \in {"criteria", "grading", "refining"}
            /\ current_response # <<>>)
               => current_response' # <<>>]_vars

\* The model calls a request has made.
ModelCalls(r) ==
    frame[r].calls.generate + frame[r].calls.quality
        + frame[r].calls.grader + frame[r].calls.refiner

\* C23: provided each model call returns, every call of generate_response
\* returns, and it makes at most 2 + 2 * max_refinements model calls.
C23_Terminates ==
    \A r \in Requests :
        (frame[r].pc \in {"generating", "criteria", "grading", "refining"})
            ~> (/\ frame[r].pc = "done"
                /\ ModelCalls(r) <= 2 + 2 * frame[r].max_refinements)

\* A request that returned after all the 2 + 2 * max_refinements calls.
C23_Witness ==
    \E r \in Requests :
        /\ frame[r].pc = "done"
        /\ frame[r].max_refinements = MaxRefinements
        /\ ModelCalls(r) = 2 + 2 * frame[r].max_refinements

\* C24: each grading call asks for code execution exactly when the
\* candidate it grades contains a numeral, whatever the caller's
\* use_code_execution, and for the search tool exactly when the caller's
\* use_search is set.
C24_GraderTools ==
    \A r \in Requests :
        frame[r].pc = "grading" =>
            /\ "code_execution" \in frame[r].grader_config
                   <=> \E k \in 1..Len(frame[r].current) :
                           frame[r].current[k] \in Digits
            /\ "google_search" \in frame[r].grader_config
                   <=> frame[r].use_search

\* A grading call without code execution for a caller that had it enabled,
\* and with the search tool the caller asked for.
C24_Witness ==
    \E r \in Requests :
        /\ frame[r].pc = "grading"
        /\ frame[r].use_code_execution
        /\ frame[r].use_search
        /\ frame[r].grader_config = config_with_search

\* C25: within one request, the prompt and the attachment parts given to
\* the criteria generator and to every refiner call are exactly the
\* contents the initial generation call received.
C25_PromptReused ==
    \A r \in Requests :
        frame[r].pc \in {"criteria", "refining"} =>
            /\ frame[r].sent.prompt = Head(frame[r].contents)
            /\ frame[r].sent.parts = Tail(frame[r].contents)

\* C26: the registry holds exactly the names of the uploads that succeeded
\* since the last cleanup: it is empty at first and after a cleanup, an
\* upload that succeeds adds the one name the service gave to what was
\* tracked, and an upload that fails returns None and leaves the registry
\* as it was.
C26_RegistryTracking ==
    /\ registry_op.op = "" => uploaded_files = <<>>
    /\ registry_op.op = "cleanup_uploaded_files" => uploaded_files = <<>>
    /\ (registry_op.op = "upload_file" /\ registry_op.returned = "file")
           => /\ Len(uploaded_files) = Len(registry_op.before) + 1
              /\ SubSeq(uploaded_files, 1, Len(registry_op.before))
                     = registry_op.before
              /\ uploaded_files[Len(uploaded_files)] \in remote_files
              /\ \A k \in 1..Len(registry_op.before) :
                     registry_op.before[k]
                         # uploaded_files[Len(uploaded_files)]
    /\ (registry_op.op = "upload_file" /\ registry_op.returned # "file")
           => /\ registry_op.returned = "None"
              /\ uploaded_files = registry_op.before

\* A failed upload after a successful one: the one name is still tracked.
C26_Witness ==
    /\ registry_op.op = "upload_file"
    /\ registry_op.returned = "None"
    /\ registry_op.previous.op = "upload_file"
    /\ Len(uploaded_files) = 1

\* C27: when calls of generate_response interleave at their model calls,
\* each returns a text built from its own model calls alone: its own latest
\* candidate, with the quality notice of its own failed criteria when its
\* loop ran out, or the error text of its own failed initial generation.
C27_ConcurrentIndependent ==
    \A r \in Requests :
        frame[r].pc = "done" =>
            IF frame[r].exit = "generation_error"
            THEN frame[r].ret \in {ErrorPrefix \o m : m \in ErrorMessages}
            ELSE \/ frame[r].ret = frame[r].current
                 \/ /\ frame[r].exit = "bound"
                    /\ frame[r].ret = frame[r].current \o QualityNotice
                                          \o frame[r].last_failed_criteria

\* C28: the loop is left by the error short-circuit only when the grading
\* call itself failed: a request that ended through that branch had a
\* grading call that raised, and a grade obtained from a grading call that
\* succeeded never ends the request there without the refiner being invoked.
C28_ErrorOnlyWhenGradingFailed ==
    \A r \in Requests :
        (frame[r].pc = "done" /\ frame[r].exit = "grader_error")
            => /\ frame[r].raised = "grader"
               /\ frame[r].calls.refiner = frame[r].calls.grader - 1

\* How many times sub occurs in s.
Occurrences(s, sub) ==
    Cardinality({k \in 1..(Len(s) + 1 - Len(sub)) :
                     SubSeq(s, k, k + Len(sub) - 1) = sub})

\* C29: the returned text carries the quality notice at most once, and only
\* when the loop ran all max_refinements turns without a break; after a
\* pass, a grader error, a refiner failure, a criteria failure or with the
\* agents disabled it carries no notice, and the message of a failed grading
\* call is in no text returned by the controller's normal exits.
C29_NoticeOnlyAtBound ==
    \A r \in Requests :
        (frame[r].pc = "done" /\ frame[r].exit # "generation_error") =>
            /\ Occurrences(frame[r].ret, QualityNotice) <= 1
            /\ Contains(frame[r].ret, QualityNotice)
                   => /\ frame[r].exit = "bound"
                      /\ frame[r].i = frame[r].max_refinements
                      /\ frame[r].calls.grader = frame[r].max_refinements
                      /\ frame[r].calls.refiner = frame[r].max_refinements
            /\ frame[r].exit \in {"pass", "grader_error", "refiner_failed",
                                  "no_criteria", "disabled"}
                   => frame[r].ret = frame[r].current
            /\ \A message \in ErrorMessages :
                   ~Contains(frame[r].ret, message)

\* A grading call failed after an earlier turn had left failed criteria to
\* report, and the response came back without the notice.
C29_Witness ==
    \E r \in Requests :
        /\ frame[r].pc = "done"
        /\ frame[r].exit = "grader_error"
        /\ frame[r].raised = "grader"
        /\ frame[r].calls.refiner > 0
        /\ HasFeedback(frame[r].last_failed_criteria)
        /\ frame[r].failed_criteria \in ErrorMessages
        /\ ~Contains(frame[r].ret, QualityNotice)

\* C30: from the initial generation's success until the loop ends,
\* self.current_response is the working candidate of the call in progress,
\* which is the output of its latest successful generation or refinement;
\* every grader and refiner call is sent exactly that candidate; and the
\* text returned starts with it.
C30_VisibleCandidate ==
    \A r \in Requests :
        /\ frame[r].pc \in {"criteria", "grading", "refining"}
               => /\ current_response = frame[r].current
                  /\ frame[r].current \in
                         IF frame[r].calls.refiner = 0
                         THEN GenerationTexts ELSE RefinerTexts
        /\ frame[r].pc \in {"grading", "refining"}
               => /\ frame[r].sent.role =
                         IF frame[r].pc = "grading" THEN "grader" ELSE "refiner"
                  /\ frame[r].sent.response_text = frame[r].current
        /\ (frame[r].pc = "done" /\ frame[r].exit # "generation_error")
               => StartsWith(frame[r].ret, frame[r].current)

\* A grading call of a later turn is sent the refined candidate, which is
\* also what the assistant shows.
C30_Witness ==
    \E r \in Requests :
        /\ frame[r].pc = "grading"
        /\ frame[r].calls.refiner > 0
        /\ frame[r].current # <<>>
        /\ frame[r].current \notin GenerationTexts
        /\ frame[r].sent.response_text = frame[r].current
        /\ current_response = frame[r].current

\* The names the service still holds although the assistant does not track
\* them: the handles whose deletion failed in some cleanup.
Orphans == remote_files \ {uploaded_files[k] : k \in 1..Len(uploaded_files)}

\* C31: cleanup_uploaded_files empties the registry even when a deletion
\* failed: a handle whose deletion failed in the call is not tracked after
\* it, and a handle the service holds untracked stays untracked and is
\* attempted by no later call.
C31_FailedHandleDropped ==
    [][/\ registry_op'.op = "cleanup_uploaded_files"
           => \A j \in 1..Len(registry_op'.attempts) :
                  ~registry_op'.attempts[j].ok
                      => registry_op'.attempts[j].name \in Orphans'
       /\ \A name \in Orphans :
              /\ name \in Orphans'
              /\ \A j \in 1..Len(registry_op'.attempts) :
                     registry_op'.attempts[j].name # name]_vars

\* A cleanup that had names to delete while the service still held a handle
\* left by a deletion that failed in an earlier cleanup.
C31_Witness ==
    /\ registry_op.op = "cleanup_uploaded_files"
    /\ registry_op.attempts # <<>>
    /\ uploaded_files = <<>>
    /\ \E name \in remote_files :
          \A j \in 1..Len(registry_op.attempts) :
              registry_op.attempts[j].name # name

====
